---- MODULE Spec2Model ----
(***************************************************************************)
(* Platform-CLI: a command line (main.py, ec2.py, s3.py, route53.py) and a *)
(* Streamlit page (app.py) over a cloud provider account.  The program     *)
(* keeps no state of its own: the state is the provider's (instances,      *)
(* buckets, hosted zones, record sets) and every command or page run is a  *)
(* short fixed sequence of provider calls.  Each action below is one whole *)
(* command invocation or one whole page run; `last` records what that run  *)
(* did (calls issued in order, outcome, prompt, listing shown).            *)
(***************************************************************************)
EXTENDS Integers, Sequences, FiniteSets, TLC

VARIABLES service, instances, buckets, zones, records, last, procs

vars == <<service, instances, buckets, zones, records, last, procs>>

(* ---------------------------- configuration ---------------------------- *)

TAG_CREATED_BY == "platform-cli"
TAG_OWNER == "student"
ALLOWED_TYPES == {"t3.micro", "t3.small"}
MAX_INSTANCES == 2

(* bounds of the model *)
MaxInst == 3
MaxZones == 2

(* inputs the commands are tried with *)
CliTypes == {"t3.micro", "t3.small", "t3.large"}
UiTypes == {"t3.micro", "t3.small"}
ServerName == "web-server"

(* ------------------------------- tags ---------------------------------- *)

None == "None"

(* {t['Key']: t['Value'] for t in tags}.get(key) *)
TagGet(tags, key) ==
    IF \E t \in tags : t[1] = key
    THEN (CHOOSE t \in tags : t[1] = key)[2]
    ELSE None

IsManagedNeedsOwner(tags) ==
    TagGet(tags, "CreatedBy") = TAG_CREATED_BY /\ TagGet(tags, "Owner") = TAG_OWNER

(* tags.get('CreatedBy') == TAG_CREATED_BY, the test every guard and every
   client-side list filter makes *)
IsManaged(tags) == TagGet(tags, "CreatedBy") = TAG_CREATED_BY

(* the provider-side filter {'Name': 'tag:CreatedBy', 'Values': [TAG_CREATED_BY]} *)
TagFilterMatches(tags) == <<"CreatedBy", TAG_CREATED_BY>> \in tags

OwnershipTagsNoOwner == {<<"CreatedBy", TAG_CREATED_BY>>}

(* the tags every create applies *)
OwnershipTags == {<<"CreatedBy", TAG_CREATED_BY>>, <<"Owner", TAG_OWNER>>}

InstanceTags(name) == {<<"Name", name>>} \cup OwnershipTags

(* tag sets of resources other actors of the account made: no tags, another
   tool's marker, an Owner tag and no marker *)
ExternalTagSets == { {}, {<<"CreatedBy", "other-tool">>, <<"Owner", TAG_OWNER>>},
                     {<<"Owner", TAG_OWNER>>} }

(* a resource tagged by hand with the tool's marker, without an Owner tag *)
HandTagged == {<<"CreatedBy", TAG_CREATED_BY>>}

(* a resource carrying the tool's marker and somebody else as Owner *)
OtherOwner == {<<"CreatedBy", TAG_CREATED_BY>>, <<"Owner", "teacher">>}

(* ------------------------- provider call faults ------------------------ *)

(* which provider call of a run fails (at = 0: none) and with which kind of
   exception: botocore's ClientError, or another exception (BotoCoreError) *)
NoFault == [at |-> 0, kind |-> "none"]
FaultKinds == {"ClientError", "BotoCoreError"}
Faults(n) == {NoFault} \cup {[at |-> i, kind |-> "ClientError"] : i \in 1..n}
FaultsOfKinds(n) == {NoFault} \cup {[at |-> i, kind |-> k] : i \in 1..n, k \in FaultKinds}

(* ------------------------- what a run did ------------------------------ *)

MutatingCalls == {"run_instances", "start_instances", "stop_instances",
                  "terminate_instances", "create_bucket", "put_bucket_tagging",
                  "delete_public_access_block", "put_public_access_block",
                  "create_hosted_zone", "change_tags_for_resource",
                  "change_resource_record_sets", "upload_file", "upload_fileobj"}

(* op, fe: the operation and the front end ("cli", "ui"); target, arg: what it
   was given; calls: the provider calls issued, in order; result: how it ended;
   err: an error was shown (error stream, st.error); exit: the exit code;
   asked, answer: the confirmation prompt; listed: the rows a list showed;
   injected: the run ended at a call the provider failed (not refused);
   before: the live A records of the changed name before a record change;
   skipped: the items of a list whose tag fetch the provider failed *)
Obs0 == [op |-> "none", fe |-> "none", target |-> 0, arg |-> <<>>,
         calls |-> <<>>, result |-> "none", err |-> FALSE, exit |-> 0,
         asked |-> FALSE, answer |-> FALSE, listed |-> {},
         injected |-> FALSE, before |-> {}, skipped |-> {}]

(* a run that ends in a message on the error stream, or in a traceback *)
Fail(o, calls, result, inj) ==
    [o EXCEPT !.calls = calls, !.result = result, !.err = TRUE,
              !.exit = IF result = "Crash" THEN 1 ELSE 0, !.injected = inj]

EnvObs == [Obs0 EXCEPT !.op = "env", !.fe = "env"]

IssuedMutating(o) == \E k \in 1..Len(o.calls) : o.calls[k] \in MutatingCalls

(* ------------------------------- EC2 ----------------------------------- *)

ActiveStates == {"running", "pending", "stopping", "stopped"}

Exists(insts, id) == id \in 1..Len(insts)

(* describe_instances with the tag:CreatedBy and instance-state-name filters *)
CountFiltered(insts) ==
    Cardinality({i \in 1..Len(insts) :
        TagFilterMatches(insts[i].tags) /\ insts[i].state \in ActiveStates})

(* ids of the rows the list shows: tag-filtered by the provider, terminated
   instances skipped by the loop *)
ListRowsWithTerminated(insts) ==
    {i \in 1..Len(insts) : TagFilterMatches(insts[i].tags)}

ListRows(insts) ==
    {i \in 1..Len(insts) :
        TagFilterMatches(insts[i].tags) /\ insts[i].state /= "terminated"}

(* the provider's lifecycle calls: the new state, or "error" *)
ProviderApply(call, state) ==
    CASE call = "start_instances" ->
            (CASE state = "stopped" -> "pending"
               [] state \in {"running", "pending"} -> state
               [] OTHER -> "error")
      [] call = "stop_instances" ->
            (CASE state \in {"running", "pending"} -> "stopping"
               [] state \in {"stopping", "stopped"} -> state
               [] OTHER -> "error")
      [] call = "terminate_instances" -> "terminated"
      [] OTHER -> "error"

NewInstance(type, name) ==
    [state |-> "pending", tags |-> InstanceTags(name), byTool |-> TRUE]

Ret(st, o) == [st |-> st, obs |-> o]

(* ec2 create: allow-list, quota lookup, AMI lookup, run_instances *)
QuotaReachedOffByOne(insts) == CountFiltered(insts) > MAX_INSTANCES

QuotaReached(insts) == CountFiltered(insts) >= MAX_INSTANCES

TypeAllowedAll(type) == TRUE

TypeAllowed(type) == type \in ALLOWED_TYPES

CliCreate(insts, type, f) ==
    LET o == [Obs0 EXCEPT !.op = "create", !.fe = "cli", !.arg = type]
        c3 == <<"describe_instances", "get_parameter", "run_instances">>
    IN
    IF ~TypeAllowed(type) THEN Ret(insts, Fail(o, <<>>, "InvalidConfiguration", FALSE))
    ELSE IF f.at = 1 THEN Ret(insts, Fail(o, SubSeq(c3, 1, 1), "Crash", TRUE))
    ELSE IF QuotaReached(insts)
    THEN Ret(insts, Fail(o, SubSeq(c3, 1, 1), "QuotaExceeded", FALSE))
    ELSE IF f.at = 2 THEN Ret(insts, Fail(o, SubSeq(c3, 1, 2), "ProviderError", TRUE))
    ELSE IF f.at = 3 THEN Ret(insts, Fail(o, c3, "ProviderError", TRUE))
    ELSE Ret(Append(insts, NewInstance(type, ServerName)),
             [o EXCEPT !.calls = c3, !.result = "ok", !.target = Len(insts) + 1])

(* ec2 list: no try around describe_instances *)
CliList(insts, f) ==
    LET o == [Obs0 EXCEPT !.op = "list", !.fe = "cli"] IN
    IF f.at = 1
    THEN Ret(insts, Fail(o, <<"describe_instances">>, "Crash", TRUE))
    ELSE Ret(insts, [o EXCEPT !.calls = <<"describe_instances">>, !.result = "ok",
                              !.listed = ListRows(insts)])

OpOf(call) ==
    CASE call = "start_instances" -> "start"
      [] call = "stop_instances" -> "stop"
      [] OTHER -> "terminate"

(* ec2 stop / start / terminate: fetch, guard, (confirm,) mutate *)
CliManageNoGuard(call, insts, id, answer, f) ==
    LET o == [Obs0 EXCEPT !.op = OpOf(call), !.fe = "cli", !.target = id]
        c1 == <<"describe_instances">>
        ns == IF Exists(insts, id) THEN ProviderApply(call, insts[id].state) ELSE "error"
    IN
    IF f.at = 1 \/ ~Exists(insts, id)
    THEN Ret(insts, Fail(o, c1, "ProviderError", f.at = 1))
    ELSE IF f.at = 2 \/ ns = "error"
    THEN Ret(insts, Fail(o, c1 \o <<call>>, "ProviderError", f.at = 2))
    ELSE Ret([insts EXCEPT ![id].state = ns],
             [o EXCEPT !.calls = c1 \o <<call>>, !.result = "ok"])

CliManage(call, insts, id, answer, f) ==
    LET o == [Obs0 EXCEPT !.op = OpOf(call), !.fe = "cli", !.target = id]
        c1 == <<"describe_instances">>
        ns == IF Exists(insts, id) THEN ProviderApply(call, insts[id].state) ELSE "error"
    IN
    IF f.at = 1 \/ ~Exists(insts, id)
    THEN Ret(insts, Fail(o, c1, "ProviderError", f.at = 1))
    ELSE IF ~IsManaged(insts[id].tags)
    THEN Ret(insts, Fail(o, c1, "NotManaged", FALSE))
    ELSE IF call = "terminate_instances" /\ ~answer
    THEN Ret(insts, [o EXCEPT !.calls = c1, !.result = "Cancelled", !.asked = TRUE])
    ELSE LET o2 == [o EXCEPT !.asked = (call = "terminate_instances"),
                             !.answer = (call = "terminate_instances")] IN
         IF f.at = 2 \/ ns = "error"
         THEN Ret(insts, Fail(o2, c1 \o <<call>>, "ProviderError", f.at = 2))
         ELSE Ret([insts EXCEPT ![id].state = ns],
                  [o2 EXCEPT !.calls = c1 \o <<call>>, !.result = "ok"])

(* app.py, "Launch Instance": AMI lookup and run_instances; the page's list
   follows (after st.rerun() when the launch succeeded) *)
UiLaunch(insts, type, f) ==
    LET o == [Obs0 EXCEPT !.op = "create", !.fe = "ui", !.arg = type]
        c2 == <<"get_parameter", "run_instances">>
        after == Append(insts, NewInstance(type, ServerName))
    IN
    IF f.at \in {1, 2}
    THEN Ret(insts, [Fail(o, SubSeq(c2, 1, f.at), "ProviderError", TRUE)
                        EXCEPT !.listed = ListRows(insts)])
    ELSE Ret(after, [o EXCEPT !.calls = c2, !.result = "ok", !.target = Len(insts) + 1,
                              !.listed = ListRows(after)])

(* app.py, "My Active Instances": the page's list *)
UiList(insts, f) ==
    LET o == [Obs0 EXCEPT !.op = "list", !.fe = "ui"] IN
    IF f.at = 1
    THEN Ret(insts, Fail(o, <<"describe_instances">>, "ProviderError", TRUE))
    ELSE Ret(insts, [o EXCEPT !.calls = <<"describe_instances">>, !.result = "ok",
                              !.listed = ListRows(insts)])

(* app.py, Start / Stop / Terminate on the id selected among the listed rows; only
   Terminate is followed by st.rerun(), which lists again *)
UiManage(call, insts, id, f) ==
    LET o == [Obs0 EXCEPT !.op = OpOf(call), !.fe = "ui", !.target = id,
                          !.listed = ListRows(insts)]
        calls == <<"describe_instances", call>>
        ns == ProviderApply(call, insts[id].state)
        after == [insts EXCEPT ![id].state = ns]
    IN
    IF f.at = 1 \/ ns = "error"
    THEN Ret(insts, Fail(o, calls, "ProviderError", f.at = 1))
    ELSE Ret(after, [o EXCEPT !.calls = calls, !.result = "ok",
                              !.listed = IF call = "terminate_instances"
                                         THEN ListRows(after) ELSE ListRows(insts)])

(* ------------------------------- S3 ------------------------------------ *)

CliBucketNames == {"Data", "logs"}
UiBucketNames == {"", "Data", "logs"}

(* bucket_name.lower() *)
Lower(name) == IF name = "Data" THEN "data" ELSE name

(* the order of the names in the list_buckets response *)
NameOrder == <<"data", "logs">>

ValidBucketNames == {"data", "logs"}

NoBuckets == [n \in {} |-> 0]

(* create_bucket is refused for a name in use or not lower-case *)
CreateBucketRefused(bks, name) == name \in DOMAIN bks \/ name \notin ValidBucketNames

PutBucket(bks, name, b) == [n \in DOMAIN bks \cup {name} |-> IF n = name THEN b ELSE bks[n]]

(* the public-access block of a bucket: "blocked" (all four flags true) or
   "none" (no block).  What a new bucket comes with is the provider's choice,
   the code does not set it in create_bucket. *)
NewBucketBlocks == {"blocked", "none"}

(* put_public_access_block with the four flags True / delete_public_access_block *)
PabAfterSwapped(public) == IF public THEN "blocked" ELSE "none"

PabAfter(public) == IF public THEN "none" ELSE "blocked"

(* create_bucket, put_bucket_tagging, then the public-access-block call; `caught`
   is the set of exception kinds the try catches.  A failing call leaves what the
   calls before it did. *)
CreateCalls(public) ==
    <<"create_bucket", "put_bucket_tagging",
      IF public THEN "delete_public_access_block" ELSE "put_public_access_block">>

CreateSequence(bks, name, public, f, caught, o, dflt) ==
    LET fresh == [tags |-> {}, pab |-> dflt, byTool |-> TRUE, objects |-> {}]
        calls == CreateCalls(public)
        kind == IF f.at \in 1..3 THEN f.kind ELSE "ClientError"
        failed(n, st) ==
            Ret(st, Fail(o, SubSeq(calls, 1, n),
                         IF kind \in caught THEN "ProviderError" ELSE "Crash",
                         f.at = n))
        s1 == PutBucket(bks, name, fresh)
        s2 == PutBucket(bks, name, [fresh EXCEPT !.tags = OwnershipTags])
        s3 == PutBucket(bks, name,
                        [s2[name] EXCEPT !.pab = PabAfter(public)])
    IN
    IF f.at = 1 \/ CreateBucketRefused(bks, name) THEN failed(1, bks)
    ELSE IF f.at = 2 THEN failed(2, s1)
    ELSE IF f.at = 3 THEN failed(3, s2)
    ELSE Ret(s3, [o EXCEPT !.calls = calls, !.result = "ok"])

(* the list_buckets response, in order *)
BucketSeq(bks) == LET In(n) == n \in DOMAIN bks IN SelectSeq(NameOrder, In)

(* the bucket loop of both lists: get_bucket_tagging per bucket (refused when the
   bucket has no tag set), the rows shown, and whether an exception of a kind the
   inner except does not catch left the loop *)
BucketLoop(bks, f, caught) ==
    LET names == BucketSeq(bks)
        fails(k) == f.at = k + 1 \/ bks[names[k]].tags = {}
        kindOf(k) == IF f.at = k + 1 THEN f.kind ELSE "ClientError"
        escapes(k) == fails(k) /\ kindOf(k) \notin caught
        reached(k) == \A j \in 1..(k - 1) : ~escapes(j)
    IN [rows |-> {names[k] : k \in {j \in 1..Len(names) :
                        reached(j) /\ ~fails(j) /\ IsManaged(bks[names[j]].tags)}},
        fetched |-> Cardinality({k \in 1..Len(names) : reached(k)}),
        escaped |-> \E k \in 1..Len(names) : reached(k) /\ escapes(k),
        failed |-> {names[k] : k \in {j \in 1..Len(names) : reached(j) /\ f.at = j + 1}}]

TagFetches(n) == [k \in 1..n |-> "get_bucket_tagging"]

(* s3 create *)
S3ConfirmSkipped(public, answer) == TRUE

S3Confirmed(public, answer) == ~public \/ answer

CliS3Create(bks, raw, public, answer, f, dflt) ==
    LET name == Lower(raw)
        o == [Obs0 EXCEPT !.op = "create", !.fe = "cli", !.target = name,
                          !.arg = public, !.asked = public,
                          !.answer = public /\ answer] IN
    IF ~S3Confirmed(public, answer)
    THEN Ret(bks, [o EXCEPT !.result = "Cancelled"])
    ELSE CreateSequence(bks, name, public, f, {"ClientError"}, o, dflt)

(* s3 list *)
CliS3List(bks, f) ==
    LET o == [Obs0 EXCEPT !.op = "list", !.fe = "cli"]
        loop == BucketLoop(bks, f, {"ClientError"}) IN
    IF f.at = 1
    THEN Ret(bks, Fail(o, <<"list_buckets">>, "ProviderError", TRUE))
    ELSE Ret(bks, [o EXCEPT !.calls = <<"list_buckets">> \o TagFetches(loop.fetched),
                            !.listed = loop.rows, !.skipped = loop.failed,
                            !.result = IF loop.escaped THEN "ProviderError" ELSE "ok",
                            !.err = loop.escaped, !.injected = loop.escaped])

(* app.py, "My Buckets": the bare except skips a bucket on any exception *)
UiBucketRows(bks) == BucketLoop(bks, NoFault, FaultKinds).rows

UiS3List(bks, f) ==
    LET o == [Obs0 EXCEPT !.op = "list", !.fe = "ui"]
        loop == BucketLoop(bks, f, FaultKinds) IN
    IF f.at = 1
    THEN Ret(bks, Fail(o, <<"list_buckets">>, "ProviderError", TRUE))
    ELSE Ret(bks, [o EXCEPT !.calls = <<"list_buckets">> \o TagFetches(loop.fetched),
                            !.listed = loop.rows, !.skipped = loop.failed,
                            !.result = "ok"])

(* app.py, "Create Bucket": the name is used as typed; the page's list follows *)
UiS3Create(bks, raw, public, confirm, f, dflt) ==
    LET o == [Obs0 EXCEPT !.op = "create", !.fe = "ui", !.target = raw,
                          !.arg = public, !.asked = public,
                          !.answer = public /\ confirm]
        r == IF raw = ""
             THEN Ret(bks, Fail(o, <<>>, "InvalidConfiguration", FALSE))
             ELSE IF ~S3Confirmed(public, confirm)
             THEN Ret(bks, Fail(o, <<>>, "Cancelled", FALSE))
             ELSE CreateSequence(bks, raw, public, f, FaultKinds, o, dflt)
    IN Ret(r.st, [r.obs EXCEPT !.listed = UiBucketRows(r.st)])

(* the file paths upload is tried with, and os.path.basename *)
FilePaths == {<<"reports", "a.txt">>}

Basename(path) == path[Len(path)]

PutObject(bks, name, key) == [bks EXCEPT ![name].objects = @ \cup {key}]

(* s3 upload: the file must exist; no ownership guard, the name is used as given *)
CliS3Upload(bks, name, path, fileExists, f) ==
    LET o == [Obs0 EXCEPT !.op = "upload", !.fe = "cli", !.target = name,
                          !.arg = path] IN
    IF ~fileExists THEN Ret(bks, Fail(o, <<>>, "FileNotFound", FALSE))
    ELSE IF f.at = 1 \/ name \notin DOMAIN bks
    THEN Ret(bks, Fail(o, <<"upload_file">>, "ProviderError", f.at = 1))
    ELSE Ret(PutObject(bks, name, Basename(path)),
             [o EXCEPT !.calls = <<"upload_file">>, !.result = "ok"])

(* app.py, "Upload" on the bucket selected among the listed ones *)
UiS3Upload(bks, name, path, f) ==
    LET loop == BucketLoop(bks, NoFault, FaultKinds)
        o == [Obs0 EXCEPT !.op = "upload", !.fe = "ui", !.target = name,
                          !.arg = path, !.listed = loop.rows]
        calls == <<"list_buckets">> \o TagFetches(loop.fetched) \o <<"upload_fileobj">>
    IN
    IF f.at = 1 THEN Ret(bks, Fail(o, calls, "ProviderError", TRUE))
    ELSE Ret(PutObject(bks, name, Basename(path)),
             [o EXCEPT !.calls = calls, !.result = "ok"])

(* main.py, info: the identity check *)
CliInfo(f) ==
    LET o == [Obs0 EXCEPT !.op = "info", !.fe = "cli"] IN
    IF f.at = 1 THEN Fail(o, <<"get_caller_identity">>, "ProviderError", TRUE)
    ELSE [o EXCEPT !.calls = <<"get_caller_identity">>, !.result = "ok"]

(* ----------------------------- Route53 --------------------------------- *)

ZoneDomain == <<"example", "com">>
Subdomains == {<<"www">>}
Addresses == {"1.2.3.4", "5.6.7.8"}
RecordTtl == 300

(* f"{subdomain}.{zone_name}" *)
Fqdn(sub, zoneName) == sub \o zoneName

ZoneExists(zs, id) == id \in 1..Len(zs)

ARecord(z, name, ttl, value) ==
    [zone |-> z, name |-> name, type |-> "A", ttl |-> ttl, value |-> value]

(* the record set a new hosted zone comes with *)
NsRecord(z, domain) ==
    [zone |-> z, name |-> domain, type |-> "NS", ttl |-> 172800, value |-> "ns"]

(* change_resource_record_sets, Action UPSERT: replaces the record set of the
   same zone, name and type *)
UpsertAsCreate(recs, rr) == recs \cup {rr}

Upsert(recs, rr) ==
    {r \in recs : ~(r.zone = rr.zone /\ r.name = rr.name /\ r.type = rr.type)} \cup {rr}

(* Action DELETE: refused unless name, type, TTL and value match a live record set *)
DeleteRefused(recs, rr) == rr \notin recs

Delete(recs, rr) == recs \ {rr}

NewZone(domain) == [domain |-> domain, tags |-> {}, byTool |-> TRUE]

RetDns(zs, recs, o) == [zs |-> zs, recs |-> recs, obs |-> o]

(* rows of the zone lists: list_hosted_zones, then list_tags_for_resource per
   zone; a zone whose tag fetch fails is skipped *)
ZoneRows(zs, f) ==
    {i \in 1..Len(zs) : f.at /= i + 1 /\ IsManaged(zs[i].tags)}

ZoneTagFetches(zs) == [k \in 1..Len(zs) |-> "list_tags_for_resource"]

ZonesFailed(zs, f) == {i \in 1..Len(zs) : f.at = i + 1}

(* route53 create-zone: create_hosted_zone, then change_tags_for_resource *)
CreateZoneSequenceRollback(zs, recs, domain, f, o) ==
    LET id == Len(zs) + 1
        zs2 == Append(zs, [NewZone(domain) EXCEPT !.tags = OwnershipTags])
        c2 == <<"create_hosted_zone", "change_tags_for_resource">>
    IN
    IF f.at = 1 THEN RetDns(zs, recs, Fail(o, SubSeq(c2, 1, 1), "ProviderError", TRUE))
    ELSE IF f.at = 2
    THEN RetDns(zs, recs, Fail([o EXCEPT !.target = id], c2, "ProviderError", TRUE))
    ELSE RetDns(zs2, recs \cup {NsRecord(id, domain)},
                [o EXCEPT !.target = id, !.calls = c2, !.result = "ok"])

CreateZoneSequence(zs, recs, domain, f, o) ==
    LET id == Len(zs) + 1
        zs1 == Append(zs, NewZone(domain))
        recs1 == recs \cup {NsRecord(id, domain)}
        zs2 == [zs1 EXCEPT ![id].tags = OwnershipTags]
        o1 == [o EXCEPT !.target = id]
        c2 == <<"create_hosted_zone", "change_tags_for_resource">>
    IN
    IF f.at = 1 THEN RetDns(zs, recs, Fail(o, SubSeq(c2, 1, 1), "ProviderError", TRUE))
    ELSE IF f.at = 2 THEN RetDns(zs1, recs1, Fail(o1, c2, "ProviderError", TRUE))
    ELSE RetDns(zs2, recs1, [o1 EXCEPT !.calls = c2, !.result = "ok"])

CliCreateZone(zs, recs, domain, f) ==
    CreateZoneSequence(zs, recs, domain, f,
                       [Obs0 EXCEPT !.op = "createZone", !.fe = "cli"])

(* route53 list *)
CliListZones(zs, recs, f) ==
    LET o == [Obs0 EXCEPT !.op = "list", !.fe = "cli"] IN
    IF f.at = 1
    THEN RetDns(zs, recs, Fail(o, <<"list_hosted_zones">>, "ProviderError", TRUE))
    ELSE RetDns(zs, recs, [o EXCEPT !.calls = <<"list_hosted_zones">> \o ZoneTagFetches(zs),
                                    !.listed = ZoneRows(zs, f),
                                    !.skipped = ZonesFailed(zs, f), !.result = "ok"])

(* the live A records of a name, as (TTL, value) pairs *)
LiveA(recs, id, name) ==
    {<<r.ttl, r.value>> : r \in {x \in recs : x.zone = id /\ x.name = name /\ x.type = "A"}}

ChangeRefused(action, recs, rr) == action = "DELETE" /\ DeleteRefused(recs, rr)

ApplyChange(action, recs, rr) ==
    IF action = "UPSERT" THEN Upsert(recs, rr) ELSE Delete(recs, rr)

RecordOp(action) == IF action = "UPSERT" THEN "addRecord" ELSE "deleteRecord"

RecordCalls == <<"list_tags_for_resource", "get_hosted_zone", "change_resource_record_sets">>

(* route53 add-record / delete-record: tag fetch and guard, zone name fetch,
   then the change *)
CliChangeRecordSwallow(action, zs, recs, id, sub, ip, f) ==
    LET o == [Obs0 EXCEPT !.op = RecordOp(action), !.fe = "cli", !.target = id,
                          !.arg = <<sub, ip>>]
        fail(n, inj) == RetDns(zs, recs, Fail(o, SubSeq(RecordCalls, 1, n), "ProviderError", inj))
    IN
    IF f.at = 1 \/ ~ZoneExists(zs, id) THEN fail(1, f.at = 1)
    ELSE IF ~IsManaged(zs[id].tags)
    THEN RetDns(zs, recs, Fail(o, SubSeq(RecordCalls, 1, 1), "NotManaged", FALSE))
    ELSE IF f.at = 2 THEN fail(2, TRUE)
    ELSE LET name == Fqdn(sub, zs[id].domain)
             rr == ARecord(id, name, RecordTtl, ip)
             o3 == [o EXCEPT !.before = LiveA(recs, id, name)]
         IN
         IF f.at = 3
         THEN RetDns(zs, recs, Fail(o3, RecordCalls, "ProviderError", TRUE))
         ELSE IF ChangeRefused(action, recs, rr)
         THEN RetDns(zs, recs, [o3 EXCEPT !.calls = RecordCalls, !.result = "ok"])
         ELSE RetDns(zs, ApplyChange(action, recs, rr),
                     [o3 EXCEPT !.calls = RecordCalls, !.result = "ok"])

CliChangeRecord(action, zs, recs, id, sub, ip, f) ==
    LET o == [Obs0 EXCEPT !.op = RecordOp(action), !.fe = "cli", !.target = id,
                          !.arg = <<sub, ip>>]
        fail(n, inj) == RetDns(zs, recs, Fail(o, SubSeq(RecordCalls, 1, n), "ProviderError", inj))
    IN
    IF f.at = 1 \/ ~ZoneExists(zs, id) THEN fail(1, f.at = 1)
    ELSE IF ~IsManaged(zs[id].tags)
    THEN RetDns(zs, recs, Fail(o, SubSeq(RecordCalls, 1, 1), "NotManaged", FALSE))
    ELSE IF f.at = 2 THEN fail(2, TRUE)
    ELSE LET name == Fqdn(sub, zs[id].domain)
             rr == ARecord(id, name, RecordTtl, ip)
             o3 == [o EXCEPT !.before = LiveA(recs, id, name)]
         IN
         IF f.at = 3 \/ ChangeRefused(action, recs, rr)
         THEN RetDns(zs, recs, Fail(o3, RecordCalls, "ProviderError", f.at = 3))
         ELSE RetDns(zs, ApplyChange(action, recs, rr),
                     [o3 EXCEPT !.calls = RecordCalls, !.result = "ok"])

(* app.py, "Create Zone", then the page's zone list *)
UiCreateZone(zs, recs, domain, f) ==
    LET r == CreateZoneSequence(zs, recs, domain, f,
                                [Obs0 EXCEPT !.op = "createZone", !.fe = "ui"])
    IN RetDns(r.zs, r.recs, [r.obs EXCEPT !.listed = ZoneRows(r.zs, NoFault)])

(* app.py, "My Zones" *)
UiListZones(zs, recs, f) ==
    LET o == [Obs0 EXCEPT !.op = "list", !.fe = "ui"] IN
    IF f.at = 1
    THEN RetDns(zs, recs, Fail(o, <<"list_hosted_zones">>, "ProviderError", TRUE))
    ELSE RetDns(zs, recs, [o EXCEPT !.calls = <<"list_hosted_zones">> \o ZoneTagFetches(zs),
                                    !.listed = ZoneRows(zs, f),
                                    !.skipped = ZonesFailed(zs, f), !.result = "ok"])

(* my_zones[z_name] = zid: of the listed zones of one name the last one is kept *)
UiSelectable(zs) ==
    LET rows == ZoneRows(zs, NoFault) IN
    {i \in rows : \A j \in rows : zs[j].domain = zs[i].domain => j <= i}

UiZoneCalls(zs) == <<"list_hosted_zones">> \o ZoneTagFetches(zs)

(* app.py, "Add Record" on the zone selected among the listed ones; the name is
   f"{sub}.{target_zone_name}" *)
UiAddRecord(zs, recs, id, sub, ip, f) ==
    LET name == Fqdn(sub, zs[id].domain)
        rr == ARecord(id, name, RecordTtl, ip)
        o == [Obs0 EXCEPT !.op = "addRecord", !.fe = "ui", !.target = id,
                          !.arg = <<sub, ip>>, !.listed = ZoneRows(zs, NoFault),
                          !.before = LiveA(recs, id, name)]
        calls == UiZoneCalls(zs) \o <<"change_resource_record_sets">>
    IN
    IF f.at = 1
    THEN RetDns(zs, recs, Fail(o, calls, "ProviderError", TRUE))
    ELSE RetDns(zs, Upsert(recs, rr), [o EXCEPT !.calls = calls, !.result = "ok"])

(* list_resource_record_sets filtered to type A *)
ARecordsOf(recs, id) == {r \in recs : r.zone = id /\ r.type = "A"}

(* app.py, "Delete" next to a listed A record: name, TTL and value of the row *)
UiDeleteRecord(zs, recs, rr, f) ==
    LET o == [Obs0 EXCEPT !.op = "deleteRecord", !.fe = "ui", !.target = rr.zone,
                          !.arg = <<rr.name, rr.value>>,
                          !.listed = ZoneRows(zs, NoFault),
                          !.before = LiveA(recs, rr.zone, rr.name)]
        calls == UiZoneCalls(zs) \o
                 <<"list_resource_record_sets", "change_resource_record_sets">>
    IN
    IF f.at = 1 \/ DeleteRefused(recs, rr)
    THEN RetDns(zs, recs, Fail(o, calls, "ProviderError", f.at = 1))
    ELSE RetDns(zs, Delete(recs, rr), [o EXCEPT !.calls = calls, !.result = "ok"])

(* ------------------------------ actions -------------------------------- *)

(* command-line invocations running at the same time; pc is the next step of an
   invocation of ec2 create, type its --type option *)
Procs == {1, 2}

IdleProc == [pc |-> "idle", type |-> "none", result |-> "none"]

InitialTagSets == ExternalTagSets \cup {HandTagged, OtherOwner}

InitInstances ==
    {<<>>} \cup {<<[state |-> "running", tags |-> tags, byTool |-> FALSE]>> :
                    tags \in InitialTagSets}

InitBuckets ==
    {NoBuckets} \cup
    {PutBucket(NoBuckets, "logs", [tags |-> tags, pab |-> "blocked", byTool |-> FALSE, objects |-> {}]) :
        tags \in InitialTagSets}

InitZones ==
    {<<>>} \cup {<<[domain |-> ZoneDomain, tags |-> tags, byTool |-> FALSE]>> :
                    tags \in InitialTagSets}

(* the records of a zone made by hand: its NS record and one A record of TTL 60 *)
InitRecords ==
    {NsRecord(1, ZoneDomain), ARecord(1, Fqdn(<<"www">>, ZoneDomain), 60, "1.2.3.4")}

(* the account as the tool finds it: empty, or holding one resource somebody else
   made.  The three command groups (and the three sections of the page) share no
   state, so a behaviour stays within the one chosen by `service`. *)
Init ==
    /\ service \in {"ec2", "s3", "route53"}
    /\ instances \in (IF service = "ec2" THEN InitInstances ELSE {<<>>})
    /\ buckets \in (IF service = "s3" THEN InitBuckets ELSE {NoBuckets})
    /\ zones \in (IF service = "route53" THEN InitZones ELSE {<<>>})
    /\ records = IF zones = <<>> THEN {} ELSE InitRecords
    /\ last = Obs0
    /\ procs = [p \in Procs |-> IdleProc]

Ec2Step(run) ==
    /\ service = "ec2"
    /\ LET r == run IN
         /\ Len(r.st) <= MaxInst
         /\ instances' = r.st
         /\ last' = r.obs
    /\ UNCHANGED <<service, buckets, zones, records, procs>>

Ec2Create == \E type \in CliTypes, f \in Faults(3) : Ec2Step(CliCreate(instances, type, f))

Ec2List == \E f \in Faults(1) : Ec2Step(CliList(instances, f))

Ec2Start ==
    \E id \in 1..MaxInst, f \in Faults(2) :
        Ec2Step(CliManage("start_instances", instances, id, FALSE, f))

Ec2Stop ==
    \E id \in 1..MaxInst, f \in Faults(2) :
        Ec2Step(CliManage("stop_instances", instances, id, FALSE, f))

Ec2Terminate ==
    \E id \in 1..MaxInst, answer \in BOOLEAN, f \in Faults(2) :
        Ec2Step(CliManage("terminate_instances", instances, id, answer, f))

UiEc2Launch == \E type \in UiTypes, f \in Faults(2) : Ec2Step(UiLaunch(instances, type, f))

UiEc2List == \E f \in Faults(1) : Ec2Step(UiList(instances, f))

UiEc2Start ==
    \E row \in ListRows(instances), f \in Faults(1) :
        Ec2Step(UiManage("start_instances", instances, row, f))

UiEc2Stop ==
    \E row \in ListRows(instances), f \in Faults(1) :
        Ec2Step(UiManage("stop_instances", instances, row, f))

UiEc2Terminate ==
    \E row \in ListRows(instances), f \in Faults(1) :
        Ec2Step(UiManage("terminate_instances", instances, row, f))

(* the provider completes a stop.  Every call of the program, and every provider
   call above, treats pending and running alike, so the progress from pending to
   running is left out *)
EnvProgress ==
    /\ service = "ec2"
    /\ \E i \in 1..Len(instances) :
         /\ instances[i].state \in {"stopping"}
         /\ instances' = [instances EXCEPT ![i].state = "stopped"]
    /\ last' = EnvObs
    /\ UNCHANGED <<service, buckets, zones, records, procs>>

S3Step(run) ==
    /\ service = "s3"
    /\ LET r == run IN
         /\ buckets' = r.st
         /\ last' = r.obs
    /\ UNCHANGED <<service, instances, zones, records, procs>>

S3Create ==
    \E raw \in CliBucketNames, public \in BOOLEAN, answer \in BOOLEAN,
       f \in FaultsOfKinds(3), dflt \in NewBucketBlocks :
        S3Step(CliS3Create(buckets, raw, public, answer, f, dflt))

S3List == \E f \in FaultsOfKinds(3) : S3Step(CliS3List(buckets, f))

UiS3CreateBucket ==
    \E raw \in UiBucketNames, public \in BOOLEAN, confirm \in BOOLEAN,
       f \in FaultsOfKinds(3), dflt \in NewBucketBlocks :
        S3Step(UiS3Create(buckets, raw, public, confirm, f, dflt))

UiS3ListBuckets == \E f \in FaultsOfKinds(3) : S3Step(UiS3List(buckets, f))

S3Upload ==
    \E name \in CliBucketNames, path \in FilePaths, fileExists \in BOOLEAN,
       f \in Faults(1) :
        S3Step(CliS3Upload(buckets, name, path, fileExists, f))

UiS3UploadFile ==
    \E row \in UiBucketRows(buckets), path \in FilePaths, f \in Faults(1) :
        S3Step(UiS3Upload(buckets, row, path, f))

Info ==
    /\ \E f \in Faults(1) : last' = CliInfo(f)
    /\ UNCHANGED <<service, instances, buckets, zones, records, procs>>

DnsStep(run) ==
    /\ service = "route53"
    /\ LET r == run IN
         /\ Len(r.zs) <= MaxZones
         /\ zones' = r.zs
         /\ records' = r.recs
         /\ last' = r.obs
    /\ UNCHANGED <<service, instances, buckets, procs>>

R53CreateZone == \E f \in Faults(2) : DnsStep(CliCreateZone(zones, records, ZoneDomain, f))

R53List == \E f \in Faults(MaxZones + 1) : DnsStep(CliListZones(zones, records, f))

R53AddRecord ==
    \E id \in 1..MaxZones, sub \in Subdomains, ip \in Addresses, f \in Faults(3) :
        DnsStep(CliChangeRecord("UPSERT", zones, records, id, sub, ip, f))

R53DeleteRecord ==
    \E id \in 1..MaxZones, sub \in Subdomains, ip \in Addresses, f \in Faults(3) :
        DnsStep(CliChangeRecord("DELETE", zones, records, id, sub, ip, f))

UiR53CreateZone == \E f \in Faults(2) : DnsStep(UiCreateZone(zones, records, ZoneDomain, f))

UiR53List == \E f \in Faults(MaxZones + 1) : DnsStep(UiListZones(zones, records, f))

UiR53AddRecord ==
    \E id \in UiSelectable(zones), sub \in Subdomains, ip \in Addresses, f \in Faults(1) :
        DnsStep(UiAddRecord(zones, records, id, sub, ip, f))

UiR53DeleteRecord ==
    \E id \in UiSelectable(zones), f \in Faults(1) :
        \E rr \in ARecordsOf(records, id) :
            DnsStep(UiDeleteRecord(zones, records, rr, f))

Next ==
    \/ Ec2Create \/ Ec2List \/ Ec2Start \/ Ec2Stop \/ Ec2Terminate
    \/ UiEc2Launch \/ UiEc2List \/ UiEc2Start \/ UiEc2Stop \/ UiEc2Terminate
    \/ EnvProgress
    \/ S3Create \/ S3List \/ UiS3CreateBucket \/ UiS3ListBuckets
    \/ S3Upload \/ UiS3UploadFile \/ Info
    \/ R53CreateZone \/ R53List \/ R53AddRecord \/ R53DeleteRecord
    \/ UiR53CreateZone \/ UiR53List \/ UiR53AddRecord \/ UiR53DeleteRecord

Spec == Init /\ [][Next]_vars

(* --------------- two ec2 create invocations at the same time ------------ *)

(* the account before the two invocations: at most two instances, each managed
   (running, stopped or terminated) or somebody else's *)
RaceInstanceKinds ==
    {[state |-> st, tags |-> InstanceTags(ServerName), byTool |-> TRUE] :
        st \in {"running", "stopped", "terminated"}}
    \cup {[state |-> "running", tags |-> {}, byTool |-> FALSE]}

RaceInstances ==
    {<<>>} \cup {<<a>> : a \in RaceInstanceKinds}
           \cup {<<a, b>> : a \in RaceInstanceKinds, b \in RaceInstanceKinds}

InitRace ==
    /\ service = "ec2"
    /\ instances \in RaceInstances
    /\ buckets = NoBuckets
    /\ zones = <<>>
    /\ records = {}
    /\ last = Obs0
    /\ procs \in [Procs -> {[pc |-> "check", type |-> t, result |-> "none"] :
                                t \in CliTypes}]

RaceObs(p, type, result) ==
    [Obs0 EXCEPT !.op = "create", !.fe = "cli", !.target = p, !.arg = type,
                 !.result = result, !.err = result \notin {"none", "ok"},
                 !.exit = IF result = "Crash" THEN 1 ELSE 0]

RaceStep(p, pc, result, insts) ==
    /\ procs' = [procs EXCEPT ![p].pc = pc, ![p].result = result]
    /\ instances' = insts
    /\ last' = RaceObs(p, procs[p].type, result)
    /\ UNCHANGED <<service, buckets, zones, records>>

(* if instance_type not in ALLOWED_TYPES *)
RaceCheckType(p) ==
    /\ procs[p].pc = "check"
    /\ IF TypeAllowed(procs[p].type)
       THEN RaceStep(p, "quota", "none", instances)
       ELSE RaceStep(p, "done", "InvalidConfiguration", instances)

(* describe_instances and the comparison with MAX_INSTANCES *)
RaceQuotaLookup(p) ==
    /\ procs[p].pc = "quota"
    /\ \E f \in Faults(1) :
         IF f.at = 1 THEN RaceStep(p, "done", "Crash", instances)
         ELSE IF QuotaReached(instances)
         THEN RaceStep(p, "done", "QuotaExceeded", instances)
         ELSE RaceStep(p, "ami", "none", instances)

(* get_latest_ami() *)
RaceImageLookup(p) ==
    /\ procs[p].pc = "ami"
    /\ \E f \in Faults(1) :
         IF f.at = 1 THEN RaceStep(p, "done", "ProviderError", instances)
         ELSE RaceStep(p, "run", "none", instances)

(* run_instances *)
RaceRunInstances(p) ==
    /\ procs[p].pc = "run"
    /\ \E f \in Faults(1) :
         IF f.at = 1 THEN RaceStep(p, "done", "ProviderError", instances)
         ELSE RaceStep(p, "done", "ok",
                       Append(instances, NewInstance(procs[p].type, ServerName)))

NextRace ==
    \E p \in Procs :
        \/ RaceCheckType(p)
        \/ RaceQuotaLookup(p)
        \/ RaceImageLookup(p)
        \/ RaceRunInstances(p)

SpecRace == InitRace /\ [][NextRace]_vars

(* ------------------------------ claims --------------------------------- *)

Tagged(tags) == <<"CreatedBy", TAG_CREATED_BY>> \in tags

HasBoth(tags) == Tagged(tags) /\ \E t \in tags : t[1] = "Owner"

ManagedActive(insts) ==
    {i \in 1..Len(insts) : Tagged(insts[i].tags) /\ insts[i].state /= "terminated"}

(* C1: a start, stop or terminate on an instance, or an addRecord or deleteRecord
   on a zone, whose tags do not carry CreatedBy = tool identifier issues the tag
   fetch and nothing else, in particular no mutating call, and ends with
   NotManaged (unless the tag fetch itself failed). *)
C1_UnmanagedRefused ==
    /\ (/\ service = "ec2"
        /\ last.op \in {"start", "stop", "terminate"}
        /\ Exists(instances, last.target)
        /\ ~Tagged(instances[last.target].tags))
       => /\ last.calls = <<"describe_instances">>
          /\ ~IssuedMutating(last)
          /\ (last.result = "NotManaged" \/ last.injected)
    /\ (/\ service = "route53"
        /\ last.op \in {"addRecord", "deleteRecord"}
        /\ ZoneExists(zones, last.target)
        /\ ~Tagged(zones[last.target].tags))
       => /\ last.calls = <<"list_tags_for_resource">>
          /\ ~IssuedMutating(last)
          /\ (last.result = "NotManaged" \/ last.injected)

C1_Witness ==
    /\ service = "ec2"
    /\ last.op = "terminate"
    /\ last.result = "NotManaged"
    /\ Exists(instances, last.target)
    /\ ~Tagged(instances[last.target].tags)
    /\ instances[last.target].state = "running"

(* C2: every row a list shows (ec2 list, s3 list, route53 list, and the lists of
   the page) is a resource tagged CreatedBy = tool identifier, and no row of the
   instance list is a terminated instance. *)
C2_ListsOnlyManaged ==
    /\ service = "ec2" =>
          \A i \in last.listed :
              /\ Exists(instances, i)
              /\ Tagged(instances[i].tags)
              /\ instances[i].state /= "terminated"
    /\ service = "s3" =>
          \A n \in last.listed : n \in DOMAIN buckets /\ Tagged(buckets[n].tags)
    /\ service = "route53" =>
          \A i \in last.listed : ZoneExists(zones, i) /\ Tagged(zones[i].tags)

C2_Witness ==
    /\ service = "ec2"
    /\ last.op = "list"
    /\ last.listed /= {}
    /\ \E i \in 1..Len(instances) :
          Tagged(instances[i].tags) /\ instances[i].state = "terminated"
    /\ \E i \in 1..Len(instances) :
          ~Tagged(instances[i].tags) /\ instances[i].state = "running"

(* the managed, non-terminated instances there were before the last create *)
ManagedActiveBefore ==
    ManagedActive(instances) \ (IF last.result = "ok" THEN {last.target} ELSE {})

QuotaCase ==
    /\ service = "ec2"
    /\ last.op = "create"
    /\ last.fe = "cli"
    /\ last.arg \in ALLOWED_TYPES
    /\ Cardinality(ManagedActiveBefore) >= MAX_INSTANCES

(* C3, as stated: with two managed, non-terminated instances a further ec2 create
   fails with QuotaExceeded and issues no provider call at all. *)
C3_Original ==
    (QuotaCase /\ ~last.injected) => last.result = "QuotaExceeded" /\ last.calls = <<>>

(* C3, amended: with two managed, non-terminated instances a further ec2 create
   issues exactly one provider call, the quota lookup (describe_instances), and
   fails with QuotaExceeded (it ends at the lookup when the lookup itself fails);
   neither the image lookup nor the creation call is issued. *)
C3_QuotaRefusal ==
    QuotaCase => /\ last.calls = <<"describe_instances">>
                 /\ (last.result = "QuotaExceeded" \/ last.injected)

C3_Witness == QuotaCase /\ last.result = "QuotaExceeded"

(* C4, as stated: at most MAX_INSTANCES non-terminated instances tagged
   CreatedBy = tool identifier exist, whatever sequence of create, start, stop and
   terminate was issued from the command line or the page. *)
C4_Cap == Cardinality(ManagedActive(instances)) <= MAX_INSTANCES

(* C5: a compute create with a size class outside the allow-list fails with
   InvalidConfiguration before any provider call (quota lookup, image lookup,
   creation call). *)
C5_DisallowedType ==
    (service = "ec2" /\ last.op = "create" /\ last.arg \notin ALLOWED_TYPES)
       => /\ last.result = "InvalidConfiguration"
          /\ last.calls = <<>>
          /\ last.err

C5_Witness ==
    /\ service = "ec2"
    /\ last.op = "create"
    /\ last.arg = "t3.large"
    /\ last.result = "InvalidConfiguration"
    /\ Cardinality(ManagedActive(instances)) >= MAX_INSTANCES

(* C6: a storage create with makePublic and a declined confirmation issues no
   provider call (no create_bucket, no tagging, no public-access-block call) and
   does not succeed, from the command line and from the page. *)
C6_DeclinedPublic ==
    (service = "s3" /\ last.op = "create" /\ last.arg /\ ~last.answer)
       => /\ last.calls = <<>>
          /\ last.result \in {"Cancelled", "InvalidConfiguration"}

C6_Witness ==
    /\ service = "s3"
    /\ last.op = "create"
    /\ last.fe = "ui"
    /\ last.arg
    /\ last.asked
    /\ ~last.answer
    /\ last.result = "Cancelled"
    /\ last.target \notin DOMAIN buckets

(* C7, as stated: every terminate asks for confirmation before the
   terminate_instances call, and a declined confirmation issues no mutating
   call. *)
C7_TerminateConfirmed ==
    (service = "ec2" /\ last.op = "terminate")
       => /\ (\E k \in 1..Len(last.calls) : last.calls[k] = "terminate_instances")
                => (last.asked /\ last.answer)
          /\ (last.asked /\ ~last.answer) => ~IssuedMutating(last)

(* C8, as stated: every instance, bucket and zone a create of the tool made
   carries CreatedBy and Owner in every reachable state. *)
C8_Original ==
    /\ \A i \in 1..Len(instances) : instances[i].byTool => HasBoth(instances[i].tags)
    /\ \A n \in DOMAIN buckets : buckets[n].byTool => HasBoth(buckets[n].tags)
    /\ \A i \in 1..Len(zones) : zones[i].byTool => HasBoth(zones[i].tags)

CreatedTags ==
    CASE service = "ec2" -> instances[last.target].tags
      [] service = "s3" -> buckets[last.target].tags
      [] OTHER -> zones[last.target].tags

(* C8, amended: every instance the tool made carries CreatedBy and Owner in every
   reachable state; a bucket or zone the tool made carries both or, when its
   tagging call failed or was never reached, no tag at all; a create that reports
   success has left its resource with both tags. *)
C8_TaggedOrUntagged ==
    /\ \A i \in 1..Len(instances) : instances[i].byTool => HasBoth(instances[i].tags)
    /\ \A n \in DOMAIN buckets :
          buckets[n].byTool => (HasBoth(buckets[n].tags) \/ buckets[n].tags = {})
    /\ \A i \in 1..Len(zones) :
          zones[i].byTool => (HasBoth(zones[i].tags) \/ zones[i].tags = {})
    /\ (last.op \in {"create", "createZone"} /\ last.result = "ok") => HasBoth(CreatedTags)

C8_Witness ==
    /\ service = "s3"
    /\ last.op = "create"
    /\ last.result = "ProviderError"
    /\ \E n \in DOMAIN buckets : buckets[n].byTool /\ buckets[n].tags = {}
    /\ \E n \in DOMAIN buckets : buckets[n].byTool /\ HasBoth(buckets[n].tags)

(* the A records of name sub.<zone domain> in zone id *)
LiveRecords(recs, zs, id, sub) ==
    {r \in recs : r.zone = id /\ r.name = sub \o zs[id].domain /\ r.type = "A"}

(* C9: an addRecord(zone, s, ip2) right after a successful addRecord(zone, s, ip1)
   succeeds (unless the provider fails a call) and leaves exactly one A record
   named s.<zone domain>, of value ip2 and TTL 300; with ip1 = ip2 it leaves the
   record sets as they were. *)
C9_UpsertReplaces ==
    [][ (/\ last.op = "addRecord" /\ last.result = "ok"
         /\ last'.op = "addRecord"
         /\ last'.target = last.target
         /\ last'.arg[1] = last.arg[1]
         /\ ~last'.injected)
        => /\ last'.result = "ok"
           /\ LiveRecords(records', zones', last'.target, last'.arg[1])
                = {[zone |-> last'.target, name |-> last'.arg[1] \o zones'[last'.target].domain,
                    type |-> "A", ttl |-> 300, value |-> last'.arg[2]]}
           /\ (last'.arg[2] = last.arg[2] => records' = records) ]_vars

C9_Witness ==
    /\ service = "route53"
    /\ last.op = "addRecord"
    /\ last.result = "ok"
    /\ last.before = {<<300, "1.2.3.4">>}
    /\ last.arg[2] = "5.6.7.8"
    /\ LiveRecords(records, zones, last.target, last.arg[1])
         = {[zone |-> last.target, name |-> last.arg[1] \o zones[last.target].domain,
             type |-> "A", ttl |-> 300, value |-> "5.6.7.8"]}

(* C10: a delete-record on a managed zone whose live A record of that name has
   another value ends in an error, reaches the provider's change call unless an
   earlier call failed, and leaves the live record as it was. *)
C10_DeleteMismatch ==
    (/\ service = "route53"
     /\ last.op = "deleteRecord"
     /\ last.fe = "cli"
     /\ last.before /= {}
     /\ \A b \in last.before : b[2] /= last.arg[2])
       => /\ last.result = "ProviderError"
          /\ last.err
          /\ (~last.injected => last.calls = RecordCalls)
          /\ {<<r.ttl, r.value>> : r \in LiveRecords(records, zones, last.target, last.arg[1])}
                = last.before

C10_Witness ==
    /\ service = "route53"
    /\ last.op = "deleteRecord"
    /\ last.fe = "cli"
    /\ last.before = {<<300, "1.2.3.4">>}
    /\ last.arg[2] = "5.6.7.8"
    /\ ~last.injected
    /\ last.result = "ProviderError"

(* C11, as stated: a command that caught a failure (a validation, quota or
   NotManaged refusal, a missing file, a provider error) and wrote it to the
   error stream ends with a non-zero exit code. *)
C11_FailureExitsNonZero ==
    (last.fe = "cli" /\ last.err) => last.exit /= 0

(* C12, as stated: no command ends in an uncaught exception (every error,
   a provider failure on a read call such as the quota lookup or the instance
   listing included, is caught and turned into a message), and no run in which a
   create, update or delete call failed is reported as a success. *)
C12_AllCaught ==
    /\ last.result /= "Crash"
    /\ (last.injected /\ IssuedMutating(last)) => (last.err /\ last.result /= "ok")

(* the tag sets two resources can differ in: at most one value per key *)
TagUniverse ==
    {t \in SUBSET ({"CreatedBy", "Owner", "Name"} \X
                      {TAG_CREATED_BY, "other-tool", TAG_OWNER}) :
        \A a, b \in t : a[1] = b[1] => a = b}

(* tag sets that agree on CreatedBy get the same decision from the guards' test
   and from the provider-side filter, and the decision is CreatedBy = tool *)
SameDecision ==
    \A t1, t2 \in TagUniverse :
        TagGet(t1, "CreatedBy") = TagGet(t2, "CreatedBy")
           => /\ IsManaged(t1) = IsManaged(t2)
              /\ TagFilterMatches(t1) = TagFilterMatches(t2)
              /\ IsManaged(t1) = TagFilterMatches(t1)
              /\ IsManaged(t1) = (TagGet(t1, "CreatedBy") = TAG_CREATED_BY)

(* the resources a list has to show: marked, not terminated, tag fetch not failed *)
Owned ==
    CASE service = "ec2" -> ManagedActive(instances)
      [] service = "s3" -> {n \in DOMAIN buckets : Tagged(buckets[n].tags)}
      [] OTHER -> {i \in 1..Len(zones) : Tagged(zones[i].tags)}

(* C13: the decision of every list filter and every mutate guard is "CreatedBy
   equals the tool identifier" and nothing else: tag sets that agree on CreatedBy
   get the same decision whatever their Owner or other tags are; a guarded
   command that fetched the tags of its target refuses it with NotManaged exactly
   when the target does not carry CreatedBy = tool identifier (no CreatedBy tag
   and no tags at all included); a list that completed shows exactly the
   resources that carry it (terminated instances and items whose tag fetch
   failed left out). *)
C13_DecisionIsCreatedBy ==
    /\ SameDecision
    /\ (/\ service = "ec2" /\ last.fe = "cli"
        /\ last.op \in {"start", "stop", "terminate"}
        /\ Exists(instances, last.target)
        /\ ~(last.injected /\ Len(last.calls) = 1))
       => (last.result = "NotManaged" <=> ~Tagged(instances[last.target].tags))
    /\ (/\ service = "route53" /\ last.fe = "cli"
        /\ last.op \in {"addRecord", "deleteRecord"}
        /\ ZoneExists(zones, last.target)
        /\ ~(last.injected /\ Len(last.calls) = 1))
       => (last.result = "NotManaged" <=> ~Tagged(zones[last.target].tags))
    /\ (last.op = "list" /\ last.result = "ok") => last.listed = Owned \ last.skipped

C13_Witness ==
    /\ service = "s3"
    /\ last.op = "list"
    /\ last.fe = "cli"
    /\ last.result = "ok"
    /\ \E n, m \in last.listed :
          /\ buckets[n].tags = HandTagged
          /\ buckets[m].tags = OwnershipTags
    /\ last.skipped = {}

(* the last run was a storage create whose create_bucket call succeeded *)
CreateLeftBucket ==
    /\ service = "s3"
    /\ last.op = "create"
    /\ Len(last.calls) >= 2
    /\ last.target \in DOMAIN buckets

VisibilityCalls == {"put_public_access_block", "delete_public_access_block"}

VisibilityAfterTagging ==
    \A k \in 1..Len(last.calls) :
        last.calls[k] \in VisibilityCalls
           => /\ k = 3
              /\ last.calls[1] = "create_bucket"
              /\ last.calls[2] = "put_bucket_tagging"
              /\ HasBoth(buckets[last.target].tags)

(* C14, as stated: a create with makePublic = false that leaves a bucket in
   existence leaves it with all four public-access-block flags true; a create
   with makePublic = true that succeeds leaves it without a block; the visibility
   call comes only after create_bucket and put_bucket_tagging succeeded. *)
C14_Original ==
    CreateLeftBucket
       => /\ ~last.arg => buckets[last.target].pab = "blocked"
          /\ (last.arg /\ last.result = "ok") => buckets[last.target].pab = "none"
          /\ VisibilityAfterTagging

(* C14, amended: a create with makePublic = false that reports success leaves
   the bucket with all four flags true, a create with makePublic = true that
   reports success leaves it without a block, and the visibility call is the
   third call, issued only after create_bucket and put_bucket_tagging succeeded
   (put_public_access_block when private, delete_public_access_block when
   public). *)
C14_VisibilityOnSuccess ==
    CreateLeftBucket
       => /\ (~last.arg /\ last.result = "ok") => buckets[last.target].pab = "blocked"
          /\ (last.arg /\ last.result = "ok") => buckets[last.target].pab = "none"
          /\ last.result = "ok" => Len(last.calls) = 3
          /\ VisibilityAfterTagging
          /\ Len(last.calls) = 3
                => last.calls[3] = (IF last.arg THEN "delete_public_access_block"
                                    ELSE "put_public_access_block")

C14_Witness ==
    /\ CreateLeftBucket
    /\ ~last.arg
    /\ last.result = "ok"
    /\ buckets[last.target].pab = "blocked"
    /\ \E n \in DOMAIN buckets :
          buckets[n].byTool /\ buckets[n].pab = "none" /\ buckets[n].tags = {}

(* C15, as stated: a storage list or zone list in which the tag fetch of an
   item failed still completes without an error and shows every other bucket or
   zone that carries CreatedBy = tool identifier, wherever the failing item
   stands in the provider's response. *)
C15_ItemFailureSkipsOnlyItem ==
    (service \in {"s3", "route53"} /\ last.op = "list" /\ last.skipped /= {})
       => /\ last.result = "ok"
          /\ ~last.err
          /\ last.listed = Owned \ last.skipped

(* the zones a create-zone of the tool made and left without tags *)
HalfMadeZones == {i \in 1..Len(zones) : zones[i].byTool /\ zones[i].tags = {}}

(* C16: a create-zone whose create_hosted_zone succeeded and whose tagging call
   failed reports an error, issues no further call (no delete of the zone), and
   leaves the zone in existence without tags; such a zone is shown by no zone
   list and every add-record or delete-record on it is refused with NotManaged
   (or ends at its failed tag fetch) without a change call. *)
C16_UntaggedZoneStays ==
    /\ (/\ service = "route53"
        /\ last.op = "createZone"
        /\ Len(last.calls) = 2
        /\ last.result /= "ok")
       => /\ last.err
          /\ last.result = "ProviderError"
          /\ last.calls = <<"create_hosted_zone", "change_tags_for_resource">>
          /\ last.target \in HalfMadeZones
    /\ service = "route53" => last.listed \cap HalfMadeZones = {}
    /\ (/\ service = "route53"
        /\ last.op \in {"addRecord", "deleteRecord"}
        /\ last.target \in HalfMadeZones)
       => /\ last.calls = <<"list_tags_for_resource">>
          /\ (last.result = "NotManaged" \/ last.injected)
          /\ last.err

C16_Witness ==
    /\ service = "route53"
    /\ last.op = "addRecord"
    /\ last.fe = "cli"
    /\ last.result = "NotManaged"
    /\ last.target \in HalfMadeZones
    /\ NsRecord(last.target, zones[last.target].domain) \in records

(* C17, as stated: two ec2 create invocations running at the same time, their
   steps (allow-list check, quota lookup, image lookup, creation call)
   interleaved in any order, on an account that starts with at most
   MAX_INSTANCES managed non-terminated instances, never leave more than
   MAX_INSTANCES managed non-terminated instances. *)
C17_ConcurrentCap ==
    (\A p \in Procs : procs[p].pc /= "idle")
       => CountFiltered(instances) <= MAX_INSTANCES

====
